---- MODULE Spec2Model ----
(***************************************************************************)
(* Model of the RPLIDAR serial diagnostic (src/rplidar_cpp_diagnostic.cpp):*)
(* class RPLidarDiagnostic and main.  One action per step of main's run:   *)
(* port discovery, the open of a cell, each probe phase of testPort, each  *)
(* iteration of the scan loop, the stop/close of a cell, the append of the *)
(* cell's result, the console summary and the destructor.                  *)
(*                                                                         *)
(* The environment (which ports exist, what the serial line answers) is    *)
(* fixed by Init in the variables platform, present, unopenable, device:   *)
(* at most one device is attached, and it answers at one baud rate of one  *)
(* port; every other cell either fails to open or opens on a silent line.  *)
(* The report file is taken to be creatable (log_file.open succeeds).      *)
(***************************************************************************)
EXTENDS Integers, Sequences, FiniteSets, TLC

\* ---------------------------------------------------------------- bounds

\* Number of candidate port names findSerialPorts probes in the model (the
\* code probes 30 on Linux and 256 on Windows).
MaxPorts == 2
\* Longest pattern of read sizes a scripted device repeats during a scan.
MaxPeriod == 3
\* Most scans the scanning application grabs in a run.
MaxScans == 2

\* ------------------------------------------------------ program constants

max_attempts == 20
ScanThreshold == 10
BytesPerPoint == 5
MinInfoBytes == 7
MinInfoFieldsBytes == 20
MinHealthBytes == 10
SyncByte1 == 165
SyncByte2 == 90
INVALID_FD == -1

baudrates == <<115200, 256000, 230400, 460800, 921600>>

reset_cmd == <<165, 64>>
info_cmd == <<165, 80>>
health_cmd == <<165, 82>>
scan_cmd == <<165, 32>>
stop_cmd == <<165, 37>>

Platforms == {"posix", "win32"}

\* The candidate names in the order findSerialPorts probes them, cut to
\* MaxPorts names.
CandidatePorts(plat) ==
    IF plat = "win32"
    THEN [i \in 1..MaxPorts |-> <<"COM", i>>]
    ELSE [i \in 1..MaxPorts |-> <<"/dev/ttyUSB", i - 1>>]

\* ------------------------------------------------------------ environment

NoDevice == <<>>

\* The baud rates at which an attached device may answer.
DeviceBauds == {115200, 256000}

\* Sizes a read can deliver when the device answers.
RawReadSizes == {4}
InfoReadSizes == {6, 7, 20}
HealthReadSizes == {9, 10}
ScanReadSizes == {4, 25}
\* First two bytes of an answer to GET_INFO or GET_HEALTH.
HeaderBytes == {<<165, 90>>, <<165, 0>>, <<0, 90>>}
\* First two bytes of other data (never inspected).
AnyBytes == {<<0, 0>>}
\* Bytes 0, 1, 7, 8 and 9 of an answer to GET_HEALTH: the two sync bytes, the
\* status, the low and the high byte of the error code.
HealthBytes == {<<165, 90, 0, 0, 0>>, <<165, 90, 1, 2, 1>>,
                <<165, 0, 0, 0, 0>>, <<0, 90, 2, 255, 255>>}

VARIABLES
    platform,      \* build: "posix" (#else branch) or "win32" (#ifdef _WIN32)
    present,       \* candidate indices for which the port exists
    unopenable,    \* ports whose open or configuration fails
    device,        \* NoDevice, or <<port, baudrate>> where the device answers
    scan_feed,     \* <<>>, or what each read of the scan loop will return
    pc,            \* position of main
    serial_fd,     \* serial_fd / serial_handle: INVALID_FD or an OS handle
    os_handles,    \* OS handles this process holds open for serial ports
    log_file,      \* chunks written to rplidar_diagnostic_results.json
    log_open,      \* log_file is open
    results,       \* std::vector<TestResult> results
    ports,         \* runFullDiagnostic: ports
    port_i,        \* runFullDiagnostic: index of the outer loop
    baud_i,        \* runFullDiagnostic: index of the inner loop
    first_result,  \* runFullDiagnostic: first_result
    result,        \* testPort: result
    total_points,  \* testPort: total_points
    attempts,      \* testPort: attempts
    io,            \* calls the current cell made on the transport, in order
    finalize_calls,\* number of calls of finalizeLogs
    console,       \* what printSummary reported
    probe,         \* testPort: the last probe's write, bytes, buffer, output
    bad_release,   \* close / CloseHandle was called on a handle not held
    \* rplidar_s3_custom.cpp, the scanning application on the vendor SDK
    sdk_pc,        \* position of its main; "off" when it is not the program run
    sdk_calls,     \* the SDK calls made, in order, each with its result
    ctrl_c_pressed,\* ctrl_c_pressed
    handler,       \* signal(SIGINT, ctrlc) was called
    scan_count,    \* scan_count
    lidar,         \* lidar: "none", "live" or "deleted"
    channel,       \* _channel: "none", "live" or "deleted"
    sdk_ret        \* <<>>, or <<v>> once main returned v

vars == <<platform, present, unopenable, device, scan_feed, pc, serial_fd, os_handles,
          log_file, log_open, results, ports, port_i, baud_i, first_result,
          result, total_points, attempts, io, finalize_calls, console,
          probe, bad_release, sdk_pc, sdk_calls, ctrl_c_pressed, handler,
          scan_count, lidar, channel, sdk_ret>>

sdkVars == <<sdk_pc, sdk_calls, ctrl_c_pressed, handler, scan_count, lidar,
             channel, sdk_ret>>

\* The scanning application is not the program being run.
SdkOff ==
    /\ sdk_pc = "off"
    /\ sdk_calls = <<>>
    /\ ctrl_c_pressed = FALSE
    /\ handler = FALSE
    /\ scan_count = 0
    /\ lidar = "none"
    /\ channel = "none"
    /\ sdk_ret = <<>>

envVars == <<platform, present, unopenable, device, scan_feed>>

\* ------------------------------------------------------------ pure helpers

NoResult == [port |-> <<>>, baudrate |-> 0, raw_communication |-> FALSE,
             device_info_success |-> FALSE, health_check_success |-> FALSE,
             scan_start_success |-> FALSE, scan_points_received |-> 0,
             error_message |-> "", test_duration_ms |-> "unset"]

\* findSerialPorts: the candidates that exist, in probing order.
RECURSIVE FindFrom(_, _, _)
FindFrom(plat, pres, i) ==
    IF i > MaxPorts THEN <<>>
    ELSE (IF i \in pres THEN <<CandidatePorts(plat)[i]>> ELSE <<>>)
         \o FindFrom(plat, pres, i + 1)

\* findSerialPorts falling back to the first candidate when none exists.
M_findSerialPorts_Default(plat, pres) ==
    IF FindFrom(plat, pres, 1) = <<>>
    THEN <<CandidatePorts(plat)[1]>>
    ELSE FindFrom(plat, pres, 1)

findSerialPorts(plat, pres) == FindFrom(plat, pres, 1)

\* ----------------------------------------------------------- the transport

\* The handle the OS gives to a successful open / CreateFileA.
NewHandle(hs) == CHOOSE h \in 1..(Cardinality(hs) + 1) :
                     h \notin hs /\ \A g \in 1..(h - 1) : g \in hs

\* closeSerial without the reset of serial_fd after the release.
M_closeSerial_NoReset(fd, hs) ==
    IF fd # INVALID_FD
    THEN [fd |-> fd, handles |-> hs \ {fd}, bad |-> fd \notin hs]
    ELSE [fd |-> fd, handles |-> hs, bad |-> FALSE]

\* closeSerial: releases the handle when one is held; `bad` when the handle
\* it passes to close / CloseHandle is not one the process holds.
closeSerial(fd, hs) ==
    IF fd # INVALID_FD
    THEN [fd |-> INVALID_FD, handles |-> hs \ {fd}, bad |-> fd \notin hs]
    ELSE [fd |-> fd, handles |-> hs, bad |-> FALSE]

\* Ways an open can end.  "open_fail": open / CreateFileA fails; the other
\* failures are GetCommState, SetCommState and SetCommTimeouts (win32 only:
\* the posix branch ignores the results of tcgetattr and tcsetattr).
OpenOutcomes(plat, port) ==
    IF port \in unopenable
    THEN (IF plat = "win32"
          THEN {"open_fail", "getstate_fail", "setstate_fail", "timeouts_fail"}
          ELSE {"open_fail"})
    ELSE {"ok"}

\* openSerial: closes what is open, acquires the port, configures it.
openSerial(fd, hs, outcome) ==
    LET c == closeSerial(fd, hs)
        h == NewHandle(c.handles)
    IN  IF outcome = "open_fail"
        THEN [ok |-> FALSE, fd |-> INVALID_FD, handles |-> c.handles,
              bad |-> c.bad]
        ELSE [ok |-> outcome = "ok", fd |-> h, handles |-> c.handles \cup {h},
              bad |-> c.bad]

\* The device answers in this cell.
Live(port, baud) == device = <<port, baud>>

\* writeData: whether the OS accepts all the bytes.
WriteOutcomes(live) == IF live THEN {TRUE, FALSE} ELSE {TRUE}

\* What can happen on the line during one readData.
ReadEvents(plat, live, sizes, hdrs) ==
    {[kind |-> "timeout", n |-> 0, hdr |-> <<0, 0>>]}
    \cup (IF live
          THEN {[kind |-> "io_error", n |-> 0, hdr |-> <<0, 0>>]}
               \cup (IF plat = "posix"
                     THEN {[kind |-> "select_error", n |-> 0, hdr |-> <<0, 0>>]}
                     ELSE {})
               \cup {[kind |-> "data", n |-> n, hdr |-> h] :
                        n \in sizes, h \in hdrs}
          ELSE {})

\* readData: the value returned for an event on the line.
readData(plat, ev) ==
    IF plat = "win32"
    THEN (IF ev.kind = "io_error" THEN -1 ELSE ev.n)
    ELSE (IF ev.kind = "data" THEN ev.n
          ELSE IF ev.kind = "io_error" THEN -1
          ELSE 0)

\* ValidHeader looking at the first byte only.
M_ValidHeader_FirstByte(hdr) == hdr[1] = SyncByte1

ValidHeader(hdr) == hdr[1] = SyncByte1 /\ hdr[2] = SyncByte2

\* ------------------------------------------------- the probes of testPort

\* The locals of a probe's block once it has run: whether writeData took the
\* command, what happened on the line, readData's value, the bytes of the
\* buffer the code looks at, and what the block printed about the answer.
NoProbe == [accepted |-> FALSE, kind |-> "none", bytes |-> 0,
            buffer |-> <<>>, printed |-> <<>>]

ProbeOf(plat, w, ev, printed) ==
    IF w
    THEN [accepted |-> TRUE, kind |-> ev.kind, bytes |-> readData(plat, ev),
          buffer |-> IF ev.kind = "data" THEN ev.hdr ELSE <<>>,
          printed |-> printed]
    ELSE NoProbe

\* RawPhase taking a read that did not fail for an answer.
M_RawPhase_NonNegative(r, w, bytes) ==
    IF w /\ bytes >= 0 THEN [r EXCEPT !.raw_communication = TRUE] ELSE r

\* RawPhase taking any value of readData other than 0 for an answer.
M_RawPhase_NonZero(r, w, bytes) ==
    IF w /\ bytes # 0 THEN [r EXCEPT !.raw_communication = TRUE] ELSE r

\* Test 1: the flag is set when the read gave at least one byte.
RawPhase(r, w, bytes) ==
    IF w /\ bytes > 0 THEN [r EXCEPT !.raw_communication = TRUE] ELSE r

\* Test 2: at least 7 bytes and the two sync bytes.
InfoOk(w, bytes, buf) == w /\ bytes >= MinInfoBytes /\ ValidHeader(buf)

InfoPhase(r, w, bytes, buf) ==
    IF InfoOk(w, bytes, buf) THEN [r EXCEPT !.device_info_success = TRUE] ELSE r

\* Test 2 prints model, firmware and hardware only from 20 bytes on.
InfoPrinted(w, bytes, buf) ==
    IF InfoOk(w, bytes, buf) THEN <<"info", bytes >= MinInfoFieldsBytes>> ELSE <<>>

\* Test 3: at least 10 bytes and the two sync bytes.
HealthOk(w, bytes, buf) == w /\ bytes >= MinHealthBytes /\ ValidHeader(buf)

\* HealthPhase run only inside the block of a successful Test 2.
M_HealthPhase_NeedsInfo(r, w, bytes, buf) ==
    IF r.device_info_success /\ HealthOk(w, bytes, buf)
    THEN [r EXCEPT !.health_check_success = TRUE]
    ELSE r

HealthPhase(r, w, bytes, buf) ==
    IF HealthOk(w, bytes, buf) THEN [r EXCEPT !.health_check_success = TRUE] ELSE r

\* ErrorCode with the two bytes swapped.
M_ErrorCode_BigEndian(lo, hi) == (lo * 256 + hi) % 65536

\* Test 3: error_code = (buffer[9] << 8) | buffer[8], two bytes in an int.
ErrorCode(lo, hi) == (hi * 256 + lo) % 65536

\* Test 3 prints the status, buffer[7], and the error code.
HealthPrinted(w, bytes, buf) ==
    IF HealthOk(w, bytes, buf)
    THEN <<"health", buf[3], ErrorCode(buf[4], buf[5])>>
    ELSE <<>>

\* ------------------------------------------------------------- the report

LogWrite(log, open, chunks) == IF open THEN log \o chunks ELSE log

\* writeResultToJson: the fields serialised for one entry.
writeResultToJson(r) ==
    [kind |-> "entry",
     port |-> r.port, baudrate |-> r.baudrate,
     raw_communication |-> r.raw_communication,
     device_info_success |-> r.device_info_success,
     health_check_success |-> r.health_check_success,
     scan_start_success |-> r.scan_start_success,
     scan_points_received |-> r.scan_points_received,
     error_message |-> r.error_message,
     test_duration_ms |-> r.test_duration_ms]

IsPartial(r) ==
    r.device_info_success \/ r.health_check_success \/ r.raw_communication

\* CountConfigs with "if" for "else if": a working result that also has a
\* partial flag is counted twice.
RECURSIVE M_CountConfigs_NoElse(_, _, _, _)
M_CountConfigs_NoElse(rs, i, working, partial) ==
    IF i > Len(rs) THEN [working |-> working, partial |-> partial]
    ELSE M_CountConfigs_NoElse(rs, i + 1,
             IF rs[i].scan_start_success THEN working + 1 ELSE working,
             IF IsPartial(rs[i]) THEN partial + 1 ELSE partial)

\* finalizeLogs: the two counters of its loop over results.
RECURSIVE CountConfigs(_, _, _, _)
CountConfigs(rs, i, working, partial) ==
    IF i > Len(rs) THEN [working |-> working, partial |-> partial]
    ELSE IF rs[i].scan_start_success
         THEN CountConfigs(rs, i + 1, working + 1, partial)
    ELSE IF IsPartial(rs[i])
         THEN CountConfigs(rs, i + 1, working, partial + 1)
    ELSE CountConfigs(rs, i + 1, working, partial)

\* finalizeLogs: the chunks it writes.
finalizeLogs(rs) ==
    LET c == CountConfigs(rs, 1, 0, 0)
    IN  << [kind |-> "array_close"],
           [kind |-> "summary", total_tests |-> Len(rs),
            working_configurations |-> c.working,
            partial_configurations |-> c.partial] >>

\* printSummary: the first working result when there is one, else the
\* cells it lists under "Partial successes".
RECURSIVE FirstWorking(_, _)
FirstWorking(rs, i) ==
    IF i > Len(rs) THEN 0
    ELSE IF rs[i].scan_start_success THEN i
    ELSE FirstWorking(rs, i + 1)

\* PartialList looking only at the two flags of a recognised answer.
RECURSIVE M_PartialList_NoRaw(_, _)
M_PartialList_NoRaw(rs, i) ==
    IF i > Len(rs) THEN <<>>
    ELSE (IF rs[i].device_info_success \/ rs[i].health_check_success
          THEN <<i>> ELSE <<>>) \o M_PartialList_NoRaw(rs, i + 1)

RECURSIVE PartialList(_, _)
PartialList(rs, i) ==
    IF i > Len(rs) THEN <<>>
    ELSE (IF IsPartial(rs[i]) THEN <<i>> ELSE <<>>) \o PartialList(rs, i + 1)

printSummary(rs) ==
    LET w == FirstWorking(rs, 1)
    IN  [found_working |-> w # 0, working |-> w,
         partial |-> IF w # 0 THEN <<>> ELSE PartialList(rs, 1)]

\* -------------------------------------------------------------- the state

\* After RPLidarDiagnostic's constructor: no handle, the report opened and
\* its header written, no result.
Init ==
    /\ platform \in Platforms
    /\ present \in SUBSET (1..MaxPorts)
    /\ unopenable \in SUBSET {CandidatePorts(platform)[i] : i \in present}
    /\ device \in {NoDevice} \cup
                  {<<CandidatePorts(platform)[i], b>> :
                       i \in present, b \in DeviceBauds}
    /\ (device # NoDevice => device[1] \notin unopenable)
    /\ scan_feed = <<>>
    /\ pc = "run"
    /\ serial_fd = INVALID_FD
    /\ os_handles = {}
    /\ log_file = << [kind |-> "header"] >>
    /\ log_open = TRUE
    /\ results = <<>>
    /\ ports = <<>>
    /\ port_i = 0
    /\ baud_i = 0
    /\ first_result = TRUE
    /\ result = NoResult
    /\ total_points = 0
    /\ attempts = 0
    /\ io = <<>>
    /\ finalize_calls = 0
    /\ console = <<>>
    /\ probe = NoProbe
    /\ bad_release = FALSE
    /\ SdkOff

CurPort == ports[port_i]
CurBaud == baudrates[baud_i]
CurLive == Live(CurPort, CurBaud)

Write(cmd) == [op |-> "write", cmd |-> cmd]
Read == [op |-> "read", cmd |-> <<>>]
Open(ok) == [op |-> IF ok THEN "open" ELSE "open_failed", cmd |-> <<>>]
Close == [op |-> "close", cmd |-> <<>>]

\* AfterDiscovery leaving the process at once when no port is found, as a
\* call of exit() there would: no destructor runs.
M_AfterDiscovery_Exit(ps) == IF ps = <<>> THEN "done" ELSE "open"

\* runFullDiagnostic after discovery: the return when no port is found (main
\* then ends and the destructor runs), else the loops.
AfterDiscovery(ps) == IF ps = <<>> THEN "destructor" ELSE "open"

\* runFullDiagnostic, up to the loops: discovery, and the return when no
\* port is found.
FindPorts ==
    /\ pc = "run"
    /\ ports' = findSerialPorts(platform, present)
    /\ pc' = AfterDiscovery(ports')
    /\ IF ports' = <<>>
       THEN UNCHANGED <<port_i, baud_i>>
       ELSE /\ port_i' = 1
            /\ baud_i' = 1
    /\ first_result' = TRUE
    /\ UNCHANGED <<envVars, sdkVars, serial_fd, os_handles, log_file, log_open, results,
                   result, total_points, attempts, io, finalize_calls, console,
                   probe, bad_release>>

\* OpenFailureResult returning before the duration is measured.
M_OpenFailureResult_NoDuration(r) ==
    [r EXCEPT !.error_message = "Failed to open serial port"]

\* testPort when openSerial fails: the message and the duration of the attempt.
OpenFailureResult(r) ==
    [r EXCEPT !.error_message = "Failed to open serial port",
              !.test_duration_ms = "open_attempt"]

\* PhaseAfter giving up the cell's probes when a write is rejected.
M_PhaseAfter_AbortOnWriteFailure(phase, accepted) ==
    IF ~accepted THEN "stop"
    ELSE CASE phase = "raw" -> "info"
           [] phase = "info" -> "health"
           [] phase = "health" -> "scan"

\* testPort runs its phases one after the other, whatever a phase's write
\* and read gave.
PhaseAfter(phase, accepted) ==
    CASE phase = "raw" -> "info"
      [] phase = "info" -> "health"
      [] phase = "health" -> "scan"

\* testPort, up to the end of openSerial: the result initialised, and the
\* return with an error message when the open fails.
TestPortOpen ==
    /\ pc = "open"
    /\ \E outcome \in OpenOutcomes(platform, CurPort) :
         LET o == openSerial(serial_fd, os_handles, outcome)
             r0 == [NoResult EXCEPT !.port = CurPort, !.baudrate = CurBaud]
         IN  /\ serial_fd' = o.fd
             /\ os_handles' = o.handles
             /\ bad_release' = (bad_release \/ o.bad)
             /\ io' = <<Open(o.ok)>>
             /\ IF o.ok
                THEN /\ result' = r0
                     /\ pc' = "raw"
                ELSE /\ result' = OpenFailureResult(r0)
                     /\ pc' = "append"
    /\ total_points' = 0
    /\ attempts' = 0
    /\ probe' = NoProbe
    /\ UNCHANGED <<envVars, sdkVars, log_file, log_open, results, ports, port_i, baud_i,
                   first_result, finalize_calls, console>>

\* Test 1: RESET, then one read; any byte counts.
TestRawCommunication ==
    /\ pc = "raw"
    /\ \E w \in WriteOutcomes(CurLive),
          ev \in ReadEvents(platform, CurLive, RawReadSizes, AnyBytes) :
       /\ pc' = PhaseAfter(pc, w)
       /\ io' = io \o (IF w THEN <<Write(reset_cmd), Read>>
                              ELSE <<Write(reset_cmd)>>)
       /\ result' = RawPhase(result, w, readData(platform, ev))
       /\ probe' = ProbeOf(platform, w, ev, <<>>)
    /\ UNCHANGED <<envVars, sdkVars, serial_fd, os_handles, log_file, log_open, results,
                   ports, port_i, baud_i, first_result, total_points, attempts,
                   finalize_calls, console, bad_release>>

\* Test 2: GET_INFO, then one read; at least 7 bytes and the two sync bytes.
TestDeviceInfo ==
    /\ pc = "info"
    /\ \E w \in WriteOutcomes(CurLive),
          ev \in ReadEvents(platform, CurLive, InfoReadSizes, HeaderBytes) :
       /\ pc' = PhaseAfter(pc, w)
       /\ io' = io \o (IF w THEN <<Write(info_cmd), Read>>
                              ELSE <<Write(info_cmd)>>)
       /\ LET bytes == readData(platform, ev)
          IN  /\ result' = InfoPhase(result, w, bytes, ev.hdr)
              /\ probe' = ProbeOf(platform, w, ev,
                                  InfoPrinted(w, bytes, ev.hdr))
    /\ UNCHANGED <<envVars, sdkVars, serial_fd, os_handles, log_file, log_open, results,
                   ports, port_i, baud_i, first_result, total_points, attempts,
                   finalize_calls, console, bad_release>>

\* Test 3: GET_HEALTH, then one read; at least 10 bytes and the sync bytes.
TestHealth ==
    /\ pc = "health"
    /\ \E w \in WriteOutcomes(CurLive),
          ev \in ReadEvents(platform, CurLive, HealthReadSizes, HealthBytes) :
       /\ pc' = PhaseAfter(pc, w)
       /\ io' = io \o (IF w THEN <<Write(health_cmd), Read>>
                              ELSE <<Write(health_cmd)>>)
       /\ LET bytes == readData(platform, ev)
          IN  /\ result' = HealthPhase(result, w, bytes, ev.hdr)
              /\ probe' = ProbeOf(platform, w, ev,
                                  HealthPrinted(w, bytes, ev.hdr))
    /\ UNCHANGED <<envVars, sdkVars, serial_fd, os_handles, log_file, log_open, results,
                   ports, port_i, baud_i, first_result, total_points, attempts,
                   finalize_calls, console, bad_release>>

\* ScanExit returning from testPort when START_SCAN is rejected.
M_ScanExit_ReturnOnReject(accepted) == IF accepted THEN "scan_loop" ELSE "append"

\* After the START_SCAN write: the loop when it was accepted, else on to STOP.
ScanExit(accepted) == IF accepted THEN "scan_loop" ELSE "stop"

\* Test 4, the START_SCAN write: the loop is entered only when it is accepted.
ScanStart ==
    /\ pc = "scan"
    /\ \E w \in WriteOutcomes(CurLive) :
         pc' = ScanExit(w)
    /\ io' = io \o <<Write(scan_cmd)>>
    /\ total_points' = 0
    /\ attempts' = 0
    /\ probe' = NoProbe
    /\ UNCHANGED <<envVars, sdkVars, serial_fd, os_handles, log_file, log_open, results,
                   ports, port_i, baud_i, first_result, result,
                   finalize_calls, console, bad_release>>

\* PointsInBuffer counting a started group of 5 bytes as a point.
M_PointsInBuffer_RoundUp(bytes) ==
    IF bytes > 0 THEN (bytes + BytesPerPoint - 1) \div BytesPerPoint ELSE 0

\* The points one read adds: bytes / 5 when bytes > 0.
PointsInBuffer(bytes) == IF bytes > 0 THEN bytes \div BytesPerPoint ELSE 0

\* ThresholdCrossed with >= for >.
M_ThresholdCrossed_AtLeast(points) == points >= ScanThreshold

\* The loop's test after a read.
ThresholdCrossed(points) == points > ScanThreshold

\* ScanStep without the break: the loop goes on after a success.
M_ScanStep_NoBreak(total_pts, att, bytes) ==
    LET total == total_pts + PointsInBuffer(bytes)
        success == bytes > 0 /\ ThresholdCrossed(total)
    IN  [total_points |-> total, attempts |-> att + 1, success |-> success,
         leave |-> ~(att + 1 < max_attempts)]

\* One iteration of the scan loop on a read of `bytes`: the new total and
\* count of attempts, whether the scan succeeded, whether the loop is left.
ScanStep(total_pts, att, bytes) ==
    LET total == total_pts + PointsInBuffer(bytes)
        success == bytes > 0 /\ ThresholdCrossed(total)
        n == IF success THEN att ELSE att + 1
    IN  [total_points |-> total, attempts |-> n, success |-> success,
         leave |-> success \/ ~(n < max_attempts)]

\* The event on the line for a scripted read size: bytes, nothing within the
\* timeout (0), or a failed read (negative).
FeedEvent(n) ==
    IF n > 0 THEN [kind |-> "data", n |-> n, hdr |-> <<0, 0>>]
    ELSE IF n = 0 THEN [kind |-> "timeout", n |-> 0, hdr |-> <<0, 0>>]
    ELSE [kind |-> "io_error", n |-> 0, hdr |-> <<0, 0>>]

\* What can happen on the line during the next read of the scan loop.
ScanEvents ==
    IF scan_feed = <<>>
    THEN ReadEvents(platform, CurLive, ScanReadSizes, AnyBytes)
    ELSE {FeedEvent(scan_feed[attempts + 1])}

\* One iteration of the scan loop; on leaving the loop, the total is stored.
ScanRead ==
    /\ pc = "scan_loop"
    /\ attempts < max_attempts
    /\ \E ev \in ScanEvents :
         LET s == ScanStep(total_points, attempts, readData(platform, ev))
         IN  /\ total_points' = s.total_points
             /\ attempts' = s.attempts
             /\ result' = [result EXCEPT
                   !.scan_start_success = IF s.success THEN TRUE ELSE @,
                   !.scan_points_received =
                       IF s.leave THEN s.total_points ELSE @]
             /\ pc' = IF s.leave THEN "stop" ELSE "scan_loop"
    /\ io' = io \o <<Read>>
    /\ UNCHANGED <<envVars, sdkVars, serial_fd, os_handles, log_file, log_open, results,
                   ports, port_i, baud_i, first_result, finalize_calls, console,
                   probe, bad_release>>

\* The scan loop when every read gives `bytes`: its outcome on leaving.
RECURSIVE ScanLoop(_, _, _)
ScanLoop(total_pts, att, bytes) ==
    LET s == ScanStep(total_pts, att, bytes)
    IN  IF s.leave
        THEN [success |-> s.success, points |-> s.total_points]
        ELSE ScanLoop(s.total_points, s.attempts, bytes)

\* What the line can do during one cell on an open port where the device
\* answers: the fate of the four probe writes, the event of each of the
\* three single reads, and the event every read of the scan loop sees.
CellBehaviours(plat) ==
    [w : [1..4 -> BOOLEAN],
     raw : ReadEvents(plat, TRUE, RawReadSizes, AnyBytes),
     info : ReadEvents(plat, TRUE, InfoReadSizes, HeaderBytes),
     health : ReadEvents(plat, TRUE, HealthReadSizes, HealthBytes),
     scan : ReadEvents(plat, TRUE, ScanReadSizes, AnyBytes)]

\* testPort on a port that opens, as a function of what the line does.
testPort(plat, r0, b) ==
    LET r1 == RawPhase(r0, b.w[1], readData(plat, b.raw))
        r2 == InfoPhase(r1, b.w[2], readData(plat, b.info), b.info.hdr)
        r3 == HealthPhase(r2, b.w[3], readData(plat, b.health), b.health.hdr)
        sc == ScanLoop(0, 0, readData(plat, b.scan))
        r4 == IF b.w[4]
              THEN [r3 EXCEPT !.scan_start_success = sc.success,
                              !.scan_points_received = sc.points]
              ELSE r3
    IN  [r4 EXCEPT !.test_duration_ms = "whole_cell"]

\* The end of testPort: STOP, closeSerial, the duration.
StopAndClose ==
    /\ pc = "stop"
    /\ LET c == closeSerial(serial_fd, os_handles)
       IN  /\ serial_fd' = c.fd
           /\ os_handles' = c.handles
           /\ bad_release' = (bad_release \/ c.bad)
    /\ io' = io \o <<Write(stop_cmd), Close>>
    /\ result' = [result EXCEPT !.test_duration_ms = "whole_cell"]
    /\ pc' = "append"
    /\ UNCHANGED <<envVars, sdkVars, log_file, log_open, results, ports, port_i, baud_i,
                   first_result, total_points, attempts, finalize_calls, console,
                   probe>>

\* NextCell with the two loops swapped: every interface at one baud rate,
\* then the next baud rate.
M_NextCell_BaudOuter(np, pi, bi) ==
    IF pi < np THEN <<pi + 1, bi>>
    ELSE IF bi < Len(baudrates) THEN <<1, bi + 1>>
    ELSE <<0, 0>>

\* NextCell with the inner loop one baud rate short.
M_NextCell_SkipLastBaud(np, pi, bi) ==
    IF bi < Len(baudrates) - 1 THEN <<pi, bi + 1>>
    ELSE IF pi < np THEN <<pi + 1, 1>>
    ELSE <<0, 0>>

\* The loops of runFullDiagnostic: the indices after the current cell, or
\* <<0, 0>> after the last one.
NextCell(np, pi, bi) ==
    IF bi < Len(baudrates) THEN <<pi, bi + 1>>
    ELSE IF pi < np THEN <<pi + 1, 1>>
    ELSE <<0, 0>>

\* EntryChunks writing the separator before every entry.
M_EntryChunks_AlwaysSep(first, r) ==
    << [kind |-> "sep"] >> \o <<writeResultToJson(r)>>

\* The chunks the loop body writes for one result.
EntryChunks(first, r) ==
    (IF ~first THEN << [kind |-> "sep"] >> ELSE <<>>) \o <<writeResultToJson(r)>>

\* The loop body after testPort returns: the result stored and written.
AppendResult ==
    /\ pc = "append"
    /\ results' = Append(results, result)
    /\ log_file' = LogWrite(log_file, log_open, EntryChunks(first_result, result))
    /\ first_result' = FALSE
    /\ LET nx == NextCell(Len(ports), port_i, baud_i)
       IN  /\ port_i' = nx[1]
           /\ baud_i' = nx[2]
           /\ pc' = IF nx = <<0, 0>> THEN "summary" ELSE "open"
    /\ UNCHANGED <<envVars, sdkVars, serial_fd, os_handles, log_open, ports, result,
                   total_points, attempts, io, finalize_calls, console,
                   probe, bad_release>>

\* printSummary, at the end of runFullDiagnostic.
PrintSummary ==
    /\ pc = "summary"
    /\ console' = <<printSummary(results)>>
    /\ pc' = "destructor"
    /\ UNCHANGED <<envVars, sdkVars, serial_fd, os_handles, log_file, log_open, results,
                   ports, port_i, baud_i, first_result, result, total_points,
                   attempts, io, finalize_calls, probe, bad_release>>

\* ~RPLidarDiagnostic at the end of main: closeSerial, finalizeLogs.
Destructor ==
    /\ pc = "destructor"
    /\ LET c == closeSerial(serial_fd, os_handles)
       IN  /\ serial_fd' = c.fd
           /\ os_handles' = c.handles
           /\ bad_release' = (bad_release \/ c.bad)
    /\ log_file' = LogWrite(log_file, log_open, finalizeLogs(results))
    /\ log_open' = FALSE
    /\ finalize_calls' = finalize_calls + 1
    /\ pc' = "done"
    /\ UNCHANGED <<envVars, sdkVars, results, ports, port_i, baud_i, first_result,
                   result, total_points, attempts, io, console, probe>>

Next ==
    \/ FindPorts
    \/ TestPortOpen
    \/ TestRawCommunication
    \/ TestDeviceInfo
    \/ TestHealth
    \/ ScanStart
    \/ ScanRead
    \/ StopAndClose
    \/ AppendResult
    \/ PrintSummary
    \/ Destructor

Spec == Init /\ [][Next]_vars

\* ------------------------------------- finalizeLogs on arbitrary results

\* Outcomes of one cell: (raw, info, health, scan, points, error message).
CellOutcomes ==
    { <<FALSE, FALSE, FALSE, FALSE, 0, "Failed to open serial port">>,
      <<FALSE, FALSE, FALSE, FALSE, 0, "">>,
      <<TRUE, FALSE, FALSE, FALSE, 5, "">>,
      <<FALSE, TRUE, TRUE, FALSE, 10, "">>,
      <<FALSE, FALSE, FALSE, TRUE, 15, "">>,
      <<TRUE, TRUE, TRUE, TRUE, 15, "">> }

ResultOf(port, baud, o) ==
    [port |-> port, baudrate |-> baud, raw_communication |-> o[1],
     device_info_success |-> o[2], health_check_success |-> o[3],
     scan_start_success |-> o[4], scan_points_received |-> o[5],
     error_message |-> o[6],
     test_duration_ms |-> IF o[6] = "" THEN "whole_cell" ELSE "open_attempt"]

\* What the loops of runFullDiagnostic have written for results rs.
RECURSIVE LogOf(_, _)
LogOf(rs, n) ==
    IF n = 0 THEN << [kind |-> "header"] >>
    ELSE LogOf(rs, n - 1) \o EntryChunks(n = 1, rs[n])

\* main after runFullDiagnostic returned from a matrix over one interface,
\* with any outcome in each of its five cells.
InitSummary ==
    /\ platform = "posix"
    /\ present = {1}
    /\ unopenable = {}
    /\ device = NoDevice
    /\ scan_feed = <<>>
    /\ pc = "destructor"
    /\ serial_fd = INVALID_FD
    /\ os_handles = {}
    /\ ports = findSerialPorts(platform, present)
    /\ \E os \in [1..Len(baudrates) -> CellOutcomes] :
          results = [b \in 1..Len(baudrates) |->
                        ResultOf(ports[1], baudrates[b], os[b])]
    /\ log_file = LogOf(results, Len(results))
    /\ log_open = TRUE
    /\ port_i = 0
    /\ baud_i = 0
    /\ first_result = FALSE
    /\ result = results[Len(results)]
    /\ total_points = 0
    /\ attempts = 0
    /\ io = <<>>
    /\ finalize_calls = 0
    /\ console = <<printSummary(results)>>
    /\ probe = NoProbe
    /\ bad_release = FALSE
    /\ SdkOff

NextSummary == Destructor

SpecSummary == InitSummary /\ [][NextSummary]_vars

\* ------------------------------------------------- a run that is cut short

\* The process is killed before main returns: no destructor runs.  Of what
\* was written to the stream, which is never flushed before finalizeLogs
\* closes it, some prefix has reached the file; the OS closes the handles and
\* the memory of the process is gone (results is kept, as the record of the
\* cells that had completed).
Crash ==
    /\ pc \notin {"done", "crashed"}
    /\ pc' = "crashed"
    /\ \E n \in 0..Len(log_file) : log_file' = SubSeq(log_file, 1, n)
    /\ log_open' = FALSE
    /\ serial_fd' = INVALID_FD
    /\ os_handles' = {}
    /\ port_i' = 0
    /\ baud_i' = 0
    /\ result' = NoResult
    /\ total_points' = 0
    /\ attempts' = 0
    /\ io' = <<>>
    /\ probe' = NoProbe
    /\ UNCHANGED <<envVars, sdkVars, results, ports, first_result, finalize_calls,
                   console, bad_release>>

NextOrCrash == Next \/ Crash

SpecCrash == Init /\ [][NextOrCrash]_vars

\* ------------------------------------------ one cell on an answering device

\* runFullDiagnostic inside its first call of testPort, openSerial done: the
\* device answers on the first candidate port at the first baud rate.
InitCell ==
    /\ platform \in Platforms
    /\ present = {1}
    /\ unopenable = {}
    /\ device = <<CandidatePorts(platform)[1], baudrates[1]>>
    /\ scan_feed = <<>>
    /\ pc = "raw"
    /\ serial_fd = NewHandle({})
    /\ os_handles = {serial_fd}
    /\ log_file = << [kind |-> "header"] >>
    /\ log_open = TRUE
    /\ results = <<>>
    /\ ports = findSerialPorts(platform, present)
    /\ port_i = 1
    /\ baud_i = 1
    /\ first_result = TRUE
    /\ result = [NoResult EXCEPT !.port = ports[1], !.baudrate = baudrates[1]]
    /\ total_points = 0
    /\ attempts = 0
    /\ io = <<Open(TRUE)>>
    /\ finalize_calls = 0
    /\ console = <<>>
    /\ probe = NoProbe
    /\ bad_release = FALSE
    /\ SdkOff

\* The rest of testPort.
NextInCell ==
    \/ TestRawCommunication
    \/ TestDeviceInfo
    \/ TestHealth
    \/ ScanStart
    \/ ScanRead
    \/ StopAndClose

SpecCell == InitCell /\ [][NextInCell]_vars

\* ------------------------------------------- the scan loop on scripted reads

\* Read sizes of a scripted device: a failed read, a timeout, fewer than 5
\* bytes, 5 bytes and more.
FeedSizes == {-1, 0, 1, 4, 5, 9, 25}

\* The feed that repeats pattern pat over the attempts of the loop.
Cycle(pat) ==
    [i \in 1..max_attempts |-> pat[((i - 1) % Len(pat)) + 1]]

ScanFeeds ==
    {Cycle(pat) : pat \in UNION {[1..k -> FeedSizes] : k \in 1..MaxPeriod}}

\* testPort about to enter its scan loop: the port is open, the three probes
\* got no answer, START_SCAN was accepted, and the device will send what
\* scan_feed says.
InitScan ==
    /\ platform \in Platforms
    /\ present = {1}
    /\ unopenable = {}
    /\ device = <<CandidatePorts(platform)[1], baudrates[1]>>
    /\ scan_feed \in ScanFeeds
    /\ pc = "scan_loop"
    /\ serial_fd = NewHandle({})
    /\ os_handles = {serial_fd}
    /\ log_file = << [kind |-> "header"] >>
    /\ log_open = TRUE
    /\ results = <<>>
    /\ ports = findSerialPorts(platform, present)
    /\ port_i = 1
    /\ baud_i = 1
    /\ first_result = TRUE
    /\ result = [NoResult EXCEPT !.port = ports[1], !.baudrate = baudrates[1]]
    /\ total_points = 0
    /\ attempts = 0
    /\ io = <<Open(TRUE), Write(reset_cmd), Read, Write(info_cmd), Read,
              Write(health_cmd), Read, Write(scan_cmd)>>
    /\ finalize_calls = 0
    /\ console = <<>>
    /\ probe = NoProbe
    /\ bad_release = FALSE
    /\ SdkOff

\* The scan loop and the end of testPort.
NextInScan ==
    \/ ScanRead
    \/ StopAndClose

SpecScan == InitScan /\ [][NextInScan]_vars

\* --------------------------------- the scanning application on the SDK

diagVars == <<platform, present, unopenable, device, scan_feed, pc, serial_fd,
              os_handles, log_file, log_open, results, ports, port_i, baud_i,
              first_result, result, total_points, attempts, io,
              finalize_calls, console, probe, bad_release>>

SdkCall(name, res) == <<name, res>>

\* Start of main of rplidar_s3_custom.cpp; the diagnostic is not run.
InitSdk ==
    /\ platform = "posix"
    /\ present = {}
    /\ unopenable = {}
    /\ device = NoDevice
    /\ scan_feed = <<>>
    /\ pc = "off"
    /\ serial_fd = INVALID_FD
    /\ os_handles = {}
    /\ log_file = <<>>
    /\ log_open = FALSE
    /\ results = <<>>
    /\ ports = <<>>
    /\ port_i = 0
    /\ baud_i = 0
    /\ first_result = TRUE
    /\ result = NoResult
    /\ total_points = 0
    /\ attempts = 0
    /\ io = <<>>
    /\ finalize_calls = 0
    /\ console = <<>>
    /\ probe = NoProbe
    /\ bad_release = FALSE
    /\ sdk_pc = "channel"
    /\ sdk_calls = <<>>
    /\ ctrl_c_pressed = FALSE
    /\ handler = FALSE
    /\ scan_count = 0
    /\ lidar = "none"
    /\ channel = "none"
    /\ sdk_ret = <<>>

\* Every action below makes at most one call on the SDK, so that a SIGINT
\* can arrive between any two of them.

\* createSerialPortChannel; when it fails main is about to return -1.
CreateChannel ==
    /\ sdk_pc = "channel"
    /\ \E res \in {"ok", "fail"} :
         /\ sdk_calls' = Append(sdk_calls,
                                SdkCall("createSerialPortChannel", res))
         /\ channel' = IF res = "ok" THEN "live" ELSE channel
         /\ sdk_pc' = IF res = "ok" THEN "driver" ELSE "return_m1"
    /\ UNCHANGED <<diagVars, ctrl_c_pressed, handler, scan_count, lidar,
                   sdk_ret>>

\* createLidarDriver; when it gives no driver the channel is deleted next.
CreateDriver ==
    /\ sdk_pc = "driver"
    /\ \E res \in {"ok", "fail"} :
         /\ sdk_calls' = Append(sdk_calls, SdkCall("createLidarDriver", res))
         /\ lidar' = IF res = "ok" THEN "live" ELSE lidar
         /\ sdk_pc' = IF res = "ok" THEN "connect" ELSE "drop_channel_m2"
    /\ UNCHANGED <<diagVars, ctrl_c_pressed, handler, scan_count, channel,
                   sdk_ret>>

\* lidar->connect; when it fails the driver and the channel are deleted next.
Connect ==
    /\ sdk_pc = "connect"
    /\ \E res \in {"ok", "fail"} :
         /\ sdk_calls' = Append(sdk_calls, SdkCall("connect", res))
         /\ sdk_pc' = IF res = "ok" THEN "info" ELSE "drop_lidar_m3"
    /\ UNCHANGED <<diagVars, ctrl_c_pressed, handler, scan_count, lidar,
                   channel, sdk_ret>>

\* getDeviceInfo: its failure is reported and main goes on.
GetDeviceInfo ==
    /\ sdk_pc = "info"
    /\ \E res \in {"ok", "fail"} :
         sdk_calls' = Append(sdk_calls, SdkCall("getDeviceInfo", res))
    /\ sdk_pc' = "health"
    /\ UNCHANGED <<diagVars, ctrl_c_pressed, handler, scan_count, lidar,
                   channel, sdk_ret>>

\* What getHealth can give: a failure, or a status.
HealthOutcomes == {"fail", "OK", "WARNING", "ERROR", "UNKNOWN"}

\* HealthExit going on to the motor whatever the status.
M_HealthExit_Ignore(h) == "motor"

\* After getHealth: cleanup when the status is ERROR, else the motor.
HealthExit(h) == IF h = "ERROR" THEN "cleanup" ELSE "motor"

GetHealth ==
    /\ sdk_pc = "health"
    /\ \E h \in HealthOutcomes :
         /\ sdk_calls' = Append(sdk_calls, SdkCall("getHealth", h))
         /\ sdk_pc' = HealthExit(h)
    /\ UNCHANGED <<diagVars, ctrl_c_pressed, handler, scan_count, lidar,
                   channel, sdk_ret>>

\* setMotorSpeed() with its default argument: cleanup when it fails.
StartMotor ==
    /\ sdk_pc = "motor"
    /\ \E res \in {"ok", "fail"} :
         /\ sdk_calls' = Append(sdk_calls, SdkCall("setMotorSpeed", res))
         /\ sdk_pc' = IF res = "ok" THEN "modes" ELSE "cleanup"
    /\ UNCHANGED <<diagVars, ctrl_c_pressed, handler, scan_count, lidar,
                   channel, sdk_ret>>

\* getAllSupportedScanModes: the express scan on the first mode when it
\* gave modes, else the standard scan.
GetScanModes ==
    /\ sdk_pc = "modes"
    /\ \E modes \in {"ok", "empty", "fail"} :
         /\ sdk_calls' = Append(sdk_calls,
                                SdkCall("getAllSupportedScanModes", modes))
         /\ sdk_pc' = IF modes = "ok" THEN "start_express"
                                      ELSE "start_standard"
    /\ UNCHANGED <<diagVars, ctrl_c_pressed, handler, scan_count, lidar,
                   channel, sdk_ret>>

\* ScanStartExit returning 0 at once when the scan does not start.
M_ScanStartExit_Return(res) == IF res = "ok" THEN "install" ELSE "return_0"

\* After the scan start: cleanup when it failed, else on to signal().
ScanStartExit(res) == IF res = "ok" THEN "install" ELSE "cleanup"

\* startScanExpress or startScan.
StartScan ==
    /\ sdk_pc \in {"start_express", "start_standard"}
    /\ \E res \in {"ok", "fail"} :
         /\ sdk_calls' = Append(sdk_calls,
               SdkCall(IF sdk_pc = "start_express" THEN "startScanExpress"
                                                   ELSE "startScan", res))
         /\ sdk_pc' = ScanStartExit(res)
    /\ UNCHANGED <<diagVars, ctrl_c_pressed, handler, scan_count, lidar,
                   channel, sdk_ret>>

\* signal(SIGINT, ctrlc) and scan_count = 0, before the loop.
InstallHandler ==
    /\ sdk_pc = "install"
    /\ handler' = TRUE
    /\ scan_count' = 0
    /\ sdk_pc' = "loop"
    /\ UNCHANGED <<diagVars, sdk_calls, ctrl_c_pressed, lidar, channel,
                   sdk_ret>>

\* The loop's test finds ctrl_c_pressed clear: grabScanDataHq.  A grab that
\* succeeds or times out is processed next, any other result leaves the loop.
GrabScan ==
    /\ sdk_pc = "loop"
    /\ ~ctrl_c_pressed
    /\ scan_count < MaxScans
    /\ \E res \in {"ok", "timeout", "fail"} :
         /\ sdk_calls' = Append(sdk_calls, SdkCall("grabScanDataHq", res))
         /\ sdk_pc' = IF res \in {"ok", "timeout"} THEN "ascend" ELSE "cleanup"
    /\ UNCHANGED <<diagVars, ctrl_c_pressed, handler, scan_count, lidar,
                   channel, sdk_ret>>

\* ascendScanData and scan_count++, then back to the loop's test.
AscendScan ==
    /\ sdk_pc = "ascend"
    /\ sdk_calls' = Append(sdk_calls, SdkCall("ascendScanData", "ok"))
    /\ scan_count' = scan_count + 1
    /\ sdk_pc' = "loop"
    /\ UNCHANGED <<diagVars, ctrl_c_pressed, handler, lidar, channel, sdk_ret>>

\* The loop's test finds ctrl_c_pressed set.
LoopExit ==
    /\ sdk_pc = "loop"
    /\ ctrl_c_pressed
    /\ sdk_pc' = "cleanup"
    /\ UNCHANGED <<diagVars, sdk_calls, ctrl_c_pressed, handler, scan_count,
                   lidar, channel, sdk_ret>>

\* cleanup: lidar->stop().
StopScan ==
    /\ sdk_pc = "cleanup"
    /\ sdk_calls' = Append(sdk_calls, SdkCall("stop", "ok"))
    /\ sdk_pc' = "cleanup_motor"
    /\ UNCHANGED <<diagVars, ctrl_c_pressed, handler, scan_count, lidar,
                   channel, sdk_ret>>

\* cleanup: lidar->setMotorSpeed(0).
StopMotor ==
    /\ sdk_pc = "cleanup_motor"
    /\ sdk_calls' = Append(sdk_calls, SdkCall("setMotorSpeed(0)", "ok"))
    /\ sdk_pc' = "drop_lidar_0"
    /\ UNCHANGED <<diagVars, ctrl_c_pressed, handler, scan_count, lidar,
                   channel, sdk_ret>>

\* delete lidar: after a failed connect, or in cleanup.
DeleteLidar ==
    /\ sdk_pc \in {"drop_lidar_m3", "drop_lidar_0"}
    /\ sdk_calls' = Append(sdk_calls, SdkCall("delete lidar", "ok"))
    /\ lidar' = "deleted"
    /\ sdk_pc' = IF sdk_pc = "drop_lidar_m3" THEN "drop_channel_m3"
                                             ELSE "drop_channel_0"
    /\ UNCHANGED <<diagVars, ctrl_c_pressed, handler, scan_count, channel,
                   sdk_ret>>

\* delete _channel: after a failed driver creation or connect, or in cleanup.
DeleteChannel ==
    /\ sdk_pc \in {"drop_channel_m2", "drop_channel_m3", "drop_channel_0"}
    /\ sdk_calls' = Append(sdk_calls, SdkCall("delete _channel", "ok"))
    /\ channel' = "deleted"
    /\ sdk_pc' = CASE sdk_pc = "drop_channel_m2" -> "return_m2"
                   [] sdk_pc = "drop_channel_m3" -> "return_m3"
                   [] sdk_pc = "drop_channel_0" -> "return_0"
    /\ UNCHANGED <<diagVars, ctrl_c_pressed, handler, scan_count, lidar,
                   sdk_ret>>

\* The value of each return statement of main.
ReturnValue(p) ==
    CASE p = "return_m1" -> -1
      [] p = "return_m2" -> -2
      [] p = "return_m3" -> -3
      [] p = "return_0" -> 0

\* How `return 0` can end.  The gotos at lines 96 and 107 jump past the
\* initialisation of scanModes (line 115), whose destructor then runs at the
\* return on an object that was never constructed: undefined behaviour,
\* which either goes unnoticed or ends the process before main returns.
ReturnOutcomes(p, calls) ==
    IF p # "return_0"
       \/ \E i \in 1..Len(calls) : calls[i][1] = "getAllSupportedScanModes"
    THEN {"exit"}
    ELSE {"exit", "crashed"}

\* A return statement of main.
Return ==
    /\ sdk_pc \in {"return_m1", "return_m2", "return_m3", "return_0"}
    /\ \E end \in ReturnOutcomes(sdk_pc, sdk_calls) :
         /\ sdk_pc' = end
         /\ sdk_ret' = IF end = "exit" THEN <<ReturnValue(sdk_pc)>> ELSE <<>>
    /\ UNCHANGED <<diagVars, sdk_calls, ctrl_c_pressed, handler, scan_count,
                   lidar, channel>>

\* SIGINT arrives: ctrlc sets the flag once the handler is installed; before
\* that, the default action ends the process and main never returns.
SigInt ==
    /\ sdk_pc \notin {"off", "exit", "killed", "crashed"}
    /\ ~ctrl_c_pressed
    /\ IF handler
       THEN /\ ctrl_c_pressed' = TRUE
            /\ sdk_pc' = sdk_pc
       ELSE /\ ctrl_c_pressed' = ctrl_c_pressed
            /\ sdk_pc' = "killed"
    /\ UNCHANGED <<diagVars, sdk_calls, handler, scan_count, lidar, channel,
                   sdk_ret>>

NextSdk ==
    \/ CreateChannel
    \/ CreateDriver
    \/ Connect
    \/ GetDeviceInfo
    \/ GetHealth
    \/ StartMotor
    \/ GetScanModes
    \/ StartScan
    \/ InstallHandler
    \/ GrabScan
    \/ AscendScan
    \/ LoopExit
    \/ StopScan
    \/ StopMotor
    \/ DeleteLidar
    \/ DeleteChannel
    \/ Return
    \/ SigInt

SpecSdk == InitSdk /\ [][NextSdk]_vars

\* ------------------------------------------------------------- the claims

Discovered == findSerialPorts(platform, present)

CellsOf(rs, port, baud) ==
    {k \in 1..Len(rs) : rs[k].port = port /\ rs[k].baudrate = baud}

\* C1: when runFullDiagnostic has completed, the results hold exactly one
\* TestResult for every discovered interface and every baud rate of the
\* fixed set, and their number is 5 times the number of interfaces (0 when
\* none was discovered), whatever happened in each cell.
C1_MatrixExhaustive ==
    pc \in {"summary", "destructor", "done"} =>
        /\ Len(results) = Len(Discovered) * 5
        /\ \A i \in 1..Len(Discovered) :
             \A baud \in {115200, 256000, 230400, 460800, 921600} :
                Cardinality(CellsOf(results, Discovered[i], baud)) = 1

\* A completed run over two interfaces, one that never opens and one where
\* a scan succeeded at some baud rate and timed out at others.
C1_Witness ==
    /\ pc = "done"
    /\ Len(Discovered) = 2
    /\ \E k \in 1..Len(results) : results[k].error_message # ""
    /\ \E k \in 1..Len(results) : results[k].scan_start_success
    /\ \E k \in 1..Len(results) :
          /\ results[k].error_message = ""
          /\ ~results[k].raw_communication

\* The scan loop of the current cell used up its attempts.
ScanExhausted == pc \in {"stop", "append"} /\ attempts = max_attempts

\* C2: every TestResult with scan_start_success has more than 10 points,
\* and a cell whose scan loop used up its attempts without success has
\* scan_start_success false and between 0 and 10 points.
C2_ScanSuccessThreshold ==
    /\ \A k \in 1..Len(results) :
          results[k].scan_start_success => results[k].scan_points_received > 10
    /\ result.scan_start_success => result.scan_points_received > 10
    /\ ScanExhausted =>
          /\ ~result.scan_start_success
          /\ result.scan_points_received >= 0
          /\ result.scan_points_received <= 10

\* A cell that used up its 20 attempts with exactly 10 points.
C2_Witness ==
    /\ ScanExhausted
    /\ pc = "append"
    /\ result.scan_points_received = 10

Summary == log_file[Len(log_file)]

\* C3: the summary finalizeLogs writes has total_tests equal to the number
\* of results, working_configurations equal to the number of results with
\* scan_start_success, and partial_configurations equal to the number of
\* results without scan_start_success that have device_info_success,
\* health_check_success or raw_communication.
C3_SummaryCounts ==
    pc = "done" =>
        /\ Summary.kind = "summary"
        /\ Summary.total_tests = Len(results)
        /\ Summary.working_configurations =
              Cardinality({k \in 1..Len(results) : results[k].scan_start_success})
        /\ Summary.partial_configurations =
              Cardinality({k \in 1..Len(results) :
                  /\ ~results[k].scan_start_success
                  /\ \/ results[k].device_info_success
                     \/ results[k].health_check_success
                     \/ results[k].raw_communication})

\* A finished report over two working results, one of them with partial
\* flags set too, two partial results and one failure.
C3_Witness ==
    /\ pc = "done"
    /\ Summary.working_configurations = 2
    /\ Summary.partial_configurations = 2
    /\ \E k \in 1..Len(results) :
          results[k].scan_start_success /\ results[k].raw_communication
    /\ \E k \in 1..Len(results) :
          results[k].scan_start_success /\ ~results[k].raw_communication

IsEntry(c) == c.kind = "entry"
EntriesOf(log) == SelectSeq(log, IsEntry)

\* C4: on every path to the end of main (the matrix completed, or the
\* return because no interface was discovered) finalizeLogs has run exactly
\* once, after the last appended result, and left the report closed with
\* the header, the test_results array and the summary written; nothing is
\* appended after it.
C4_FinalizeOnce ==
    /\ finalize_calls <= 1
    /\ (pc = "done") <=> (finalize_calls = 1)
    /\ finalize_calls = 0 => log_open
    /\ pc = "done" =>
          LET n == Len(log_file)
          IN  /\ ~log_open
              /\ n >= 3
              /\ log_file[1].kind = "header"
              /\ log_file[n - 1].kind = "array_close"
              /\ log_file[n].kind = "summary"
              /\ \A k \in 2..(n - 2) : log_file[k].kind \in {"entry", "sep"}
              /\ Len(EntriesOf(log_file)) = Len(results)

\* The end of a run that completed a matrix of ten cells.
C4_Witness ==
    /\ pc = "done"
    /\ finalize_calls = 1
    /\ Len(results) = 10
    /\ Len(log_file) = 1 + 19 + 2

Opened == io # <<>> /\ io[1].op = "open"

IsWrite(e) == e.op = "write"
RECURSIVE CmdsOf(_)
CmdsOf(es) == IF es = <<>> THEN <<>> ELSE <<Head(es).cmd>> \o CmdsOf(Tail(es))
WritesOf(es) == CmdsOf(SelectSeq(es, IsWrite))

FiveCommands == << <<165, 64>>, <<165, 80>>, <<165, 82>>, <<165, 32>>, <<165, 37>> >>

\* C5: in every cell whose interface opens, whatever fails in a phase, the
\* commands RESET, GET_INFO, GET_HEALTH, START_SCAN and STOP are each
\* attempted exactly once, in that order, before the cell ends.
C5_AllPhasesRun ==
    /\ Opened => /\ Len(WritesOf(io)) <= 5
                 /\ WritesOf(io) = SubSeq(FiveCommands, 1, Len(WritesOf(io)))
    /\ (pc = "append" /\ Opened) => WritesOf(io) = FiveCommands

\* The end of a cell in which every write was rejected: five writes, no read.
C5_Witness ==
    /\ pc = "append"
    /\ io = <<Open(TRUE), Write(reset_cmd), Write(info_cmd), Write(health_cmd),
              Write(scan_cmd), Write(stop_cmd), Close>>

\* C6: however the scan phase is left (threshold crossed, 20 attempts used
\* up, START_SCAN rejected), STOP is sent exactly once, after the last scan
\* read and before the transport is closed.
C6_StopAlwaysSent ==
    /\ (pc \in {"raw", "info", "health", "scan", "scan_loop", "stop"}) =>
          \A k \in 1..Len(io) : io[k] # Write(stop_cmd) /\ io[k] # Close
    /\ (pc = "append" /\ Opened) =>
          LET n == Len(io)
          IN  /\ n >= 3
              /\ io[n] = Close
              /\ io[n - 1] = Write(stop_cmd)
              /\ \A k \in 1..(n - 2) : io[k] # Write(stop_cmd) /\ io[k] # Close
              /\ serial_fd = INVALID_FD

\* The end of a cell whose START_SCAN write was rejected: no scan read, and
\* STOP follows START_SCAN.
C6_Witness ==
    /\ pc = "append"
    /\ Opened
    /\ Len(io) >= 3
    /\ io[Len(io) - 2] = Write(scan_cmd)
    /\ result.raw_communication

\* C7: at most one interface handle is open at any time, and at the end of
\* every cell, whether its open failed in acquiring or configuring the
\* interface or succeeded, the handle is released before the next cell's
\* open begins and before the run ends.
C7_ReleasedAtCellEnd ==
    /\ Cardinality(os_handles) <= 1
    /\ os_handles = IF serial_fd = INVALID_FD THEN {} ELSE {serial_fd}
    /\ pc = "append" => os_handles = {}
    /\ pc = "done" => os_handles = {}

IsLastCell == port_i = Len(ports) /\ baud_i = 5

\* C8: when the interface of a cell fails to open, the cell's TestResult has
\* a non-empty error_message, the four booleans false, no points and a
\* recorded duration; the cell wrote no command and read nothing; and the
\* matrix goes on with the next cell.
C8_OpenFailure ==
    [][ (pc = "append" /\ CurPort \in unopenable) =>
          /\ result.error_message # ""
          /\ ~result.raw_communication
          /\ ~result.device_info_success
          /\ ~result.health_check_success
          /\ ~result.scan_start_success
          /\ result.scan_points_received = 0
          /\ result.test_duration_ms # "unset"
          /\ io = <<Open(FALSE)>>
          /\ results' = Append(results, result)
          /\ IF IsLastCell
             THEN pc' = "summary"
             ELSE /\ pc' = "open"
                  /\ (port_i' - 1) * 5 + baud_i' = (port_i - 1) * 5 + baud_i + 1
      ]_vars

\* The matrix is about to open the cell after one that failed to open.
C8_Witness ==
    /\ pc = "open"
    /\ Len(results) >= 1
    /\ results[Len(results)].error_message # ""
    /\ results[Len(results)].test_duration_ms = "open_attempt"

\* C9: when no interface is discovered, the run ends without opening an
\* interface or sending a command, and the finished report has an empty
\* test_results and a summary of three zeros.
C9_NoInterfaces ==
    present = {} =>
        /\ pc \in {"run", "destructor", "done"}
        /\ io = <<>>
        /\ os_handles = {}
        /\ serial_fd = INVALID_FD
        /\ results = <<>>
        /\ pc = "done" =>
              /\ ~log_open
              /\ log_file = << [kind |-> "header"], [kind |-> "array_close"],
                               [kind |-> "summary", total_tests |-> 0,
                                working_configurations |-> 0,
                                partial_configurations |-> 0] >>

\* The end of a run that discovered nothing.
C9_Witness ==
    /\ pc = "done"
    /\ present = {}
    /\ Len(log_file) = 3

FixedBaudOrder == <<115200, 256000, 230400, 460800, 921600>>

\* C10: cells are tested and their results appended in a fixed order:
\* interfaces in discovery order and, for each, the baud rates 115200,
\* 256000, 230400, 460800, 921600, all five before the next interface.
C10_CellOrder ==
    /\ \A k \in 1..Len(results) :
          /\ ((k - 1) \div 5) + 1 <= Len(Discovered)
          /\ results[k].port = Discovered[((k - 1) \div 5) + 1]
          /\ results[k].baudrate = FixedBaudOrder[((k - 1) % 5) + 1]
    /\ EntriesOf(log_file) = [k \in 1..Len(results) |-> writeResultToJson(results[k])]
    /\ pc \in {"raw", "info", "health", "scan", "scan_loop", "stop", "append"} =>
          /\ (port_i - 1) * 5 + baud_i = Len(results) + 1
          /\ result.port = Discovered[port_i]
          /\ result.baudrate = FixedBaudOrder[baud_i]

\* The first cell of the second interface has been appended after the five
\* cells of the first.
C10_Witness ==
    /\ Len(results) = 6
    /\ results[5].port # results[6].port
    /\ results[5].baudrate = 921600
    /\ results[6].baudrate = 115200

Flags(r) == <<r.raw_communication, r.device_info_success,
              r.health_check_success, r.scan_start_success>>

AllFlags == {<<a, b, c, d>> : a \in BOOLEAN, b \in BOOLEAN,
                              c \in BOOLEAN, d \in BOOLEAN}

\* The flags testPort can give from r0 on, over what the line can do.
FlagsOfCells(plat, r0) ==
    {Flags(testPort(plat, r0, b)) : b \in CellBehaviours(plat)}

\* C11: the four outcome flags of a cell are independent: each of the 16
\* combinations of raw_communication, device_info_success,
\* health_check_success and scan_start_success is the result of testPort
\* for some behaviour of the device (a later flag does not need an earlier
\* one).
C11_FlagsIndependent ==
    pc = "raw" /\ CurLive => AllFlags \subseteq FlagsOfCells(platform, result)

\* A cell that ended with a health answer and a scan but neither a raw echo
\* nor device information.
C11_Witness ==
    /\ pc = "append"
    /\ Flags(result) = <<FALSE, FALSE, TRUE, TRUE>>

AnyWorking == \E k \in 1..Len(results) : results[k].scan_start_success

PartialCells ==
    {k \in 1..Len(results) :
        \/ results[k].device_info_success
        \/ results[k].health_check_success
        \/ results[k].raw_communication}

\* The summary was printed, says whether a cell has scan_start_success and,
\* when none has, lists the cells with a partial success and no other.
SummaryReported ==
    /\ console # <<>>
    /\ console[1].found_working = AnyWorking
    /\ (~AnyWorking =>
            {console[1].partial[j] : j \in 1..Len(console[1].partial)}
                = PartialCells)

\* C12 as stated: once runFullDiagnostic has returned, after the last cell
\* or right after a discovery that found no interface, the summary has been
\* computed and reported.
C12_SummaryAlways ==
    pc \in {"destructor", "done"} => SummaryReported

\* C12, amended: once runFullDiagnostic has returned after the last cell,
\* it has reported whether any cell achieved scan_start_success and, when
\* none did, listed exactly the cells with device_info_success,
\* health_check_success or raw_communication; when discovery found no
\* interface it has returned without computing or reporting a summary.
C12_SummaryAfterCells ==
    pc \in {"destructor", "done"} =>
        IF Discovered = <<>> THEN console = <<>> ELSE SummaryReported

\* A run without a working cell whose summary lists some cells, not all.
C12_Witness ==
    /\ pc = "done"
    /\ ~AnyWorking
    /\ PartialCells # {}
    /\ PartialCells # 1..Len(results)
    /\ \E k \in PartialCells :
          /\ results[k].raw_communication
          /\ ~results[k].device_info_success
          /\ ~results[k].health_check_success

\* The document `log` for results rs: the header, the entries of rs in
\* order with one separator between two of them and none elsewhere, and,
\* when closed, the end of the array and the summary, nothing more.
WellFormed(log, rs, closed) ==
    LET n == Len(rs)
        body == IF n = 0 THEN 1 ELSE 2 * n
    IN  /\ Len(log) = body + (IF closed THEN 2 ELSE 0)
        /\ log[1] = [kind |-> "header"]
        /\ \A k \in 1..n : log[2 * k] = writeResultToJson(rs[k])
        /\ \A k \in 1..(n - 1) : log[2 * k + 1] = [kind |-> "sep"]
        /\ closed => /\ log[body + 1] = [kind |-> "array_close"]
                     /\ log[body + 2].kind = "summary"
                     /\ log[body + 2].total_tests = n

\* The document the code writes when the run ends after the results rs.
DocumentOf(rs) == LogOf(rs, Len(rs)) \o finalizeLogs(rs)

\* C13: for any number n >= 0 of results the report is well formed: the
\* header, the n entries in the order they were appended with exactly one
\* separator between consecutive entries and none before the first or after
\* the last, then the end of the array and the summary.  It holds of the file
\* at every moment of a run (closed once finalizeLogs ran), and of the
\* document closed after any prefix of the results, n = 0 and n = 1 included.
C13_DocumentWellFormed ==
    /\ WellFormed(log_file, results, pc = "done")
    /\ pc = "done" =>
          \A n \in 0..Len(results) :
             WellFormed(DocumentOf(SubSeq(results, 1, n)),
                        SubSeq(results, 1, n), TRUE)

\* A closed report with several entries.
C13_Witness ==
    /\ pc = "done"
    /\ Len(results) > 1
    /\ Len(log_file) = 2 * Len(results) + 2
    /\ log_file[3].kind = "sep"

\* C14: readData returns 0 when no byte arrives within the timeout and a
\* negative value, never 0, when the read hits an I/O error (a failure of
\* select, read or ReadFile), so that its caller can tell the two apart.
C14_ReadTellsErrorFromTimeout ==
    probe.accepted =>
        /\ (probe.kind = "timeout" => probe.bytes = 0)
        /\ (probe.kind \in {"io_error", "select_error"} => probe.bytes < 0)

\* C15: closeSerial is idempotent.  Called when no port is open it changes
\* nothing; called from any state of a run, once or twice in a row, it leaves
\* the transport not open and the second call changes nothing; and no call
\* made during the run has released a handle that was not held, so a handle
\* is released at most once per successful open.
C15_CloseIdempotent ==
    LET c == closeSerial(serial_fd, os_handles)
        cc == closeSerial(c.fd, c.handles)
    IN  /\ ~bad_release
        /\ serial_fd = INVALID_FD =>
               c = [fd |-> INVALID_FD, handles |-> os_handles, bad |-> FALSE]
        /\ c.fd = INVALID_FD
        /\ ~c.bad
        /\ cc = [fd |-> INVALID_FD, handles |-> c.handles, bad |-> FALSE]

\* The destructor has called closeSerial right after the last cell's own
\* closeSerial, on a port that had been opened.
C15_Witness ==
    /\ pc = "done"
    /\ Opened
    /\ io[Len(io)] = Close
    /\ serial_fd = INVALID_FD
    /\ os_handles = {}

\* C16: when the run is cut short by a crash after k completed cells, the
\* report left behind holds the k entries and is closed by the end of the
\* array and the summary: it is a well-formed document.
C16_CrashLeavesClosedDocument ==
    pc = "crashed" => WellFormed(log_file, results, TRUE)

\* The reads the current cell made after its START_SCAN write.
ScanReads ==
    Cardinality({i \in 1..Len(io) :
                    /\ io[i] = Read
                    /\ \E j \in 1..(i - 1) : io[j] = Write(scan_cmd)})

\* C17: the scan loop makes at most 20 reads per cell.  While it runs it
\* has made fewer than 20 reads, none of which took the total above 10; it
\* is left either by the first read that takes the total above 10, with
\* success, or after exactly 20 reads, with failure; either way the total
\* reached is the one recorded.
C17_ScanLoopBounded ==
    /\ ScanReads <= max_attempts
    /\ pc = "scan_loop" =>
          /\ ~result.scan_start_success
          /\ total_points <= ScanThreshold
          /\ ScanReads = attempts
          /\ attempts < max_attempts
    /\ pc \in {"stop", "append"} /\ ScanReads > 0 =>
          /\ result.scan_points_received = total_points
          /\ IF result.scan_start_success
             THEN /\ total_points > ScanThreshold
                  /\ ScanReads = attempts + 1
             ELSE /\ total_points <= ScanThreshold
                  /\ ScanReads = max_attempts

\* Three reads of 25 bytes: the loop is left at the third, with 15 points.
C17_Witness ==
    /\ pc = "stop"
    /\ result.scan_start_success
    /\ ScanReads = 3
    /\ total_points = 15

\* The positions of testPort after a probe, up to its return.
AfterInfo == {"health", "scan", "scan_loop", "stop"}
AfterHealth == {"scan", "scan_loop", "stop"}
AfterRaw == {"info"} \cup AfterInfo

\* C18: Test 2 sets device_info_success exactly when the GET_INFO write was
\* accepted, the read returned at least 7 bytes and the first two bytes are
\* 0xA5, 0x5A; on success it prints the fields only from 20 bytes on; and no
\* later step of the cell changes the flag, so this is its value when the
\* cell ends.
C18_DeviceInfoSuccess ==
    [][/\ pc = "info" =>
            /\ result'.device_info_success <=>
                  /\ probe'.accepted
                  /\ probe'.bytes >= 7
                  /\ probe'.buffer[1] = 165
                  /\ probe'.buffer[2] = 90
            /\ result'.device_info_success =>
                  probe'.printed = <<"info", probe'.bytes >= 20>>
       /\ pc \in AfterInfo =>
            result'.device_info_success = result.device_info_success]_vars

\* Test 2 succeeded on a 7-byte answer, without printing the fields.
C18_Witness ==
    /\ pc = "health"
    /\ result.device_info_success
    /\ probe.bytes = 7
    /\ probe.printed = <<"info", FALSE>>

\* C19: Test 3 sets health_check_success exactly when the GET_HEALTH write
\* was accepted, the read returned at least 10 bytes and the first two bytes
\* are 0xA5, 0x5A; it then reports the status byte and the error code made
\* of the next two bytes, low byte first (0 for two zero bytes); and no later
\* step of the cell changes the flag.
C19_HealthCheckSuccess ==
    [][/\ pc = "health" =>
            /\ result'.health_check_success <=>
                  /\ probe'.accepted
                  /\ probe'.bytes >= 10
                  /\ probe'.buffer[1] = 165
                  /\ probe'.buffer[2] = 90
            /\ result'.health_check_success =>
                  /\ probe'.printed = <<"health", probe'.buffer[3],
                          probe'.buffer[4] + 256 * probe'.buffer[5]>>
                  /\ (probe'.buffer[4] = 0 /\ probe'.buffer[5] = 0
                         => probe'.printed[3] = 0)
       /\ pc \in AfterHealth =>
            result'.health_check_success = result.health_check_success]_vars

\* Test 3 succeeded on status 1 and the bytes 0x02, 0x01: error code 258.
C19_Witness ==
    /\ pc = "scan"
    /\ result.health_check_success
    /\ probe.buffer = <<165, 90, 1, 2, 1>>
    /\ probe.printed = <<"health", 1, 258>>

\* C20 as stated: after RESET was sent, raw_communication is set exactly
\* when the result of the read is not zero.
C20_RawNonZero ==
    pc = "info" /\ probe.accepted =>
        (result.raw_communication <=> probe.bytes # 0)

\* C20, amended: Test 1 sets raw_communication exactly when the RESET write
\* was accepted and the read gave at least one byte, whatever the bytes
\* are; a read result of zero, or a negative one, leaves it false; and no
\* later step of the cell changes the flag.
C20_RawPositive ==
    [][/\ pc = "raw" =>
            (result'.raw_communication <=>
                 probe'.accepted /\ probe'.bytes > 0)
       /\ pc \in AfterRaw =>
            result'.raw_communication = result.raw_communication]_vars

\* Test 1 succeeded on bytes that are not a response header.
C20_Witness ==
    /\ pc = "info"
    /\ result.raw_communication
    /\ probe.bytes > 0
    /\ probe.buffer = <<0, 0>>

NothingFound(r) ==
    /\ ~r.raw_communication
    /\ ~r.device_info_success
    /\ ~r.health_check_success
    /\ ~r.scan_start_success
    /\ r.scan_points_received = 0
    /\ r.error_message = ""

TimeoutEvent == [kind |-> "timeout", n |-> 0, hdr |-> <<0, 0>>]

\* The behaviours of the line in which every read of the cell times out,
\* whatever happens to the writes.
SilentBehaviours ==
    [w : [1..4 -> BOOLEAN], raw : {TimeoutEvent}, info : {TimeoutEvent},
     health : {TimeoutEvent}, scan : {TimeoutEvent}]

\* C21: a cell whose port opened and whose reads all timed out ends with
\* the four flags false, scan_points_received = 0 and an empty
\* error_message; and error_message is not empty only for a cell whose open
\* failed.
C21_SilentCell ==
    /\ pc = "append" /\ Opened /\ ~CurLive => NothingFound(result)
    /\ pc = "raw" =>
          \A b \in SilentBehaviours :
             NothingFound(testPort(platform, result, b))
    /\ pc = "append" /\ result.error_message # "" => ~Opened
    /\ \A k \in 1..Len(results) :
          results[k].error_message # "" => results[k].port \in unopenable

\* A cell on an open port where no device answers has made all its reads.
C21_Witness ==
    /\ pc = "append"
    /\ Opened
    /\ ~CurLive
    /\ Len(io) > max_attempts
    /\ NothingFound(result)

\* The bytes a read result stands for: none when it is 0 or negative.
BytesOf(n) == IF n > 0 THEN n ELSE 0

\* Sum over the first n reads of the feed of floor(bytes / 5).
RECURSIVE SumOfFloors(_, _)
SumOfFloors(feed, n) ==
    IF n = 0 THEN 0
    ELSE SumOfFloors(feed, n - 1) + (BytesOf(feed[n]) \div 5)

\* Sum over the first n reads of the feed of the bytes received.
RECURSIVE SumOfBytes(_, _)
SumOfBytes(feed, n) ==
    IF n = 0 THEN 0 ELSE SumOfBytes(feed, n - 1) + BytesOf(feed[n])

\* C22: the scan points are floored per read, not over the total.  At every
\* moment of the loop the running total is the sum over the reads made of
\* floor(bytes / 5), hence at most floor(total bytes / 5); the recorded
\* scan_points_received is that sum; and 20 reads of 1 to 4 bytes each end
\* with scan_points_received = 0 and scan_start_success false.
C22_PointsFlooredPerRead ==
    /\ total_points = SumOfFloors(scan_feed, ScanReads)
    /\ total_points <= SumOfBytes(scan_feed, ScanReads) \div 5
    /\ pc \in {"stop", "append"} =>
          result.scan_points_received = SumOfFloors(scan_feed, ScanReads)
    /\ pc \in {"stop", "append"}
          /\ (\A i \in 1..max_attempts : scan_feed[i] \in 1..4) =>
          /\ ScanReads = max_attempts
          /\ result.scan_points_received = 0
          /\ ~result.scan_start_success

\* Twenty reads, of 4 bytes and 1 byte in turn: 50 bytes received, no point.
C22_Witness ==
    /\ pc = "append"
    /\ scan_feed = Cycle(<<4, 1>>)
    /\ ScanReads = max_attempts
    /\ SumOfBytes(scan_feed, ScanReads) = 50
    /\ result.scan_points_received = 0
    /\ ~result.scan_start_success

Called(name) == \E i \in 1..Len(sdk_calls) : sdk_calls[i][1] = name

CountCalls(name) ==
    Cardinality({i \in 1..Len(sdk_calls) : sdk_calls[i][1] = name})

Made(name, res) == \E i \in 1..Len(sdk_calls) : sdk_calls[i] = <<name, res>>

Connected == Made("connect", "ok")

\* The names of the last four SDK calls.
LastFourCalls ==
    [k \in 1..4 |-> sdk_calls[Len(sdk_calls) - 4 + k][1]]

\* C23: when main of the scanning application has returned after a connect
\* that succeeded, whatever ended the run (health status ERROR, motor start
\* failure, scan start failure, grab failure, Ctrl+C seen by the loop), it
\* went through cleanup exactly once: stop, then setMotorSpeed(0), then the
\* deletes of the driver and of the channel were each called once, last and
\* in this order, and it returned 0.  When it has returned before a
\* successful connect, it returned -1, -2 or -3 for a failed channel, driver
\* or connect, and called neither stop nor setMotorSpeed.
C23_CleanupOnEveryReturn ==
    sdk_pc = "exit" =>
        IF Connected
        THEN /\ sdk_ret = <<0>>
             /\ CountCalls("stop") = 1
             /\ CountCalls("setMotorSpeed(0)") = 1
             /\ CountCalls("delete lidar") = 1
             /\ CountCalls("delete _channel") = 1
             /\ LastFourCalls = <<"stop", "setMotorSpeed(0)",
                                  "delete lidar", "delete _channel">>
        ELSE /\ sdk_ret = (IF Made("createSerialPortChannel", "fail")
                           THEN <<-1>>
                           ELSE IF Made("createLidarDriver", "fail")
                           THEN <<-2>>
                           ELSE <<-3>>)
             /\ sdk_ret = <<-3>> => Made("connect", "fail")
             /\ ~Called("stop")
             /\ ~Called("setMotorSpeed(0)")
             /\ ~Called("setMotorSpeed")

\* main returned 0 after the loop saw Ctrl+C, one scan grabbed.
C23_Witness ==
    /\ sdk_pc = "exit"
    /\ ctrl_c_pressed
    /\ scan_count = 1
    /\ sdk_ret = <<0>>
    /\ CountCalls("stop") = 1

\* getHealth or getDeviceInfo failed, and no health status ERROR was given.
QueryFailed ==
    /\ Made("getHealth", "fail") \/ Made("getDeviceInfo", "fail")
    /\ ~Made("getHealth", "ERROR")

\* The positions of main after the label cleanup, and after its return.
Leaving == {"cleanup", "cleanup_motor", "drop_lidar_0", "drop_channel_0",
            "return_0", "exit"}

\* The positions of main after the motor start, and after the scan start.
PastScanStart == {"install", "loop", "ascend"} \cup Leaving
PastMotor == {"modes", "start_express", "start_standard"} \cup PastScanStart

\* C24: once getHealth has reported status ERROR, the motor is never
\* started and neither startScanExpress nor startScan is called; whereas
\* after a failure of getHealth or of getDeviceInfo main still calls
\* setMotorSpeed() to start the motor and, when the motor started, starts a
\* scan with startScanExpress or startScan.
C24_HealthErrorStopsStart ==
    /\ Made("getHealth", "ERROR") =>
          /\ ~Called("setMotorSpeed")
          /\ ~Called("startScanExpress")
          /\ ~Called("startScan")
    /\ QueryFailed /\ sdk_pc \in PastMotor => Called("setMotorSpeed")
    /\ QueryFailed /\ sdk_pc \in PastScanStart
          /\ Made("setMotorSpeed", "ok") =>
          Called("startScanExpress") \/ Called("startScan")

\* Both queries failed and the application is scanning.
C24_Witness ==
    /\ sdk_pc = "loop"
    /\ Made("getDeviceInfo", "fail")
    /\ Made("getHealth", "fail")
    /\ Made("setMotorSpeed", "ok")
    /\ Called("startScanExpress")
    /\ scan_count = 1

====
